---- MODULE Spec2Model ----
(***************************************************************************)
(* go-slackjira (src/main.go): a Slack bot that listens for Jira issue     *)
(* keys in chat messages and posts a card for each issue it can fetch.     *)
(*                                                                         *)
(* The model follows main.go: main() fetches the projects, builds the      *)
(* regular expression, then receives real-time events; every message that  *)
(* is not a bot message starts a goroutine running processEvents, which    *)
(* matches the text, calls GetIssue for every match and sendMessage for    *)
(* every issue GetIssue returned without error.                            *)
(*                                                                         *)
(* Strings are sequences of one-character strings, so that the regular     *)
(* expression of buildPattern is computed character by character.          *)
(***************************************************************************)
EXTENDS Integers, Sequences, FiniteSets, TLC

(***************************************************************************)
(* Bounds of the model.                                                    *)
(***************************************************************************)
\* goroutines main() starts (message events that are not bot messages)
MaxUnits == 2
\* length of a message text in the specification of the matcher
MaxLen == 6

(***************************************************************************)
(* Characters.  \d is [0-9], \W is [^0-9A-Za-z_] (Go regexp, RE2 syntax).  *)
(***************************************************************************)
Digits == {"0", "1", "2", "3", "4", "5", "6", "7", "8", "9"}

Letters ==
    {"A", "B", "C", "D", "E", "F", "G", "H", "I", "J", "K", "L", "M",
     "N", "O", "P", "Q", "R", "S", "T", "U", "V", "W", "X", "Y", "Z",
     "a", "b", "c", "d", "e", "f", "g", "h", "i", "j", "k", "l", "m",
     "n", "o", "p", "q", "r", "s", "t", "u", "v", "w", "x", "y", "z"}

IsDigit(c) == c \in Digits

IsWordChar(c) == c \in Letters \cup Digits \cup {"_"}

\* the characters message texts are made of in the model
Alphabet == {"A", "1", "-", "+", " "}

RECURSIVE StringsOfLen(_)
StringsOfLen(n) ==
    IF n = 0 THEN {<<>>}
    ELSE {Append(s, c) : s \in StringsOfLen(n - 1), c \in Alphabet}

\* every text over Alphabet of length at most MaxLen
AllTexts == UNION {StringsOfLen(n) : n \in 0..MaxLen}

Min(S) == CHOOSE x \in S : \A y \in S : x <= y

(***************************************************************************)
(* strings.TrimSpace: the string without its leading and trailing spaces.  *)
(***************************************************************************)
RECURSIVE TrimLeft(_)
TrimLeft(s) ==
    IF s # <<>> /\ Head(s) = " " THEN TrimLeft(Tail(s)) ELSE s

RECURSIVE TrimRight(_)
TrimRight(s) ==
    IF s # <<>> /\ s[Len(s)] = " " THEN TrimRight(SubSeq(s, 1, Len(s) - 1))
    ELSE s

TrimSpace(s) == TrimRight(TrimLeft(s))

(***************************************************************************)
(* The regular expression of buildPattern,                                 *)
(*     (?:\W|^)((K1|K2|...|Kn|)-\d+)(\+)?|$                                *)
(* Every key is followed by "|", so the inner group always ends with an    *)
(* empty alternative; the outer alternation has the branch $.  A compiled  *)
(* pattern is represented by the sequence of the inner alternatives.       *)
(* Offsets are counted from 0 as in Go: the character at offset p of text  *)
(* is text[p + 1].                                                         *)
(***************************************************************************)
\* the alternatives of the inner group, in the order buildPattern writes them
Alternatives(projects) == projects \o << <<>> >>

\* the literal k stands in text at offset g
HasPrefixAt(text, g, k) ==
    /\ g + Len(k) <= Len(text)
    /\ \A j \in 1..Len(k) : text[g + j] = k[j]

\* the offset after the digits that start at offset d (\d+ is greedy)
RECURSIVE DigitsEnd(_, _)
DigitsEnd(text, d) ==
    IF d < Len(text) /\ IsDigit(text[d + 1]) THEN DigitsEnd(text, d + 1)
    ELSE d

\* the alternatives that let ((..|..|)-\d+) match at offset g
AltsAt(alts, text, g) ==
    {i \in 1..Len(alts) :
        /\ HasPrefixAt(text, g, alts[i])
        /\ g + Len(alts[i]) + 1 < Len(text)
        /\ text[g + Len(alts[i]) + 1] = "-"
        /\ IsDigit(text[g + Len(alts[i]) + 2])}

\* the end offset of capture 1 when it matches at offset g, or -1
\* (leftmost-first: the first alternative that leads to a match is taken)
TokenEnd(alts, text, g) ==
    IF g < 0 \/ g > Len(text) \/ AltsAt(alts, text, g) = {} THEN -1
    ELSE DigitsEnd(text, g + Len(alts[Min(AltsAt(alts, text, g))]) + 1)

NoMatch == [lo |-> -1, hi |-> -1, g |-> -1, e |-> -1]

\* a match: [lo, hi) is the whole match, [g, e) is capture 1 (g = -1: unset)
MkMatch(text, s, g, e) ==
    [lo |-> s, hi |-> IF e < Len(text) /\ text[e + 1] = "+" THEN e + 1 ELSE e,
     g |-> g, e |-> e]

\* the prefix (?:\W|^) at offset s: \W consumes the character at s, ^ is the
\* start of the text; \W is tried first
PrefixThenToken(alts, text, s) ==
    IF s < Len(text) /\ ~IsWordChar(text[s + 1])
       /\ TokenEnd(alts, text, s + 1) # -1
    THEN MkMatch(text, s, s + 1, TokenEnd(alts, text, s + 1))
    ELSE IF s = 0 /\ TokenEnd(alts, text, 0) # -1
    THEN MkMatch(text, 0, 0, TokenEnd(alts, text, 0))
    ELSE NoMatch

\* a pattern without the prefix (?:\W|^): the token may start anywhere
TokenAnywhere(alts, text, s) ==
    IF TokenEnd(alts, text, s) # -1
    THEN MkMatch(text, s, s, TokenEnd(alts, text, s))
    ELSE NoMatch

\* the first branch of the pattern, matched at offset s
MatchAt(alts, text, s) == PrefixThenToken(alts, text, s)

\* regexp's doExecute from offset pos: the leftmost match; the branch $
\* matches the empty string at the end of the text
doExecute(alts, text, pos) ==
    LET S == {s \in pos..(Len(text) - 1) : MatchAt(alts, text, s) # NoMatch}
    IN  IF S # {} THEN MatchAt(alts, text, Min(S))
        ELSE [lo |-> Len(text), hi |-> Len(text), g |-> -1, e |-> -1]

\* regexp's allMatches: an empty match right after the previous match is
\* dropped, and the search goes on one character further
RECURSIVE allMatches(_, _, _, _)
allMatches(alts, text, pos, prevMatchEnd) ==
    IF pos > Len(text) THEN <<>>
    ELSE LET m == doExecute(alts, text, pos)
             empty == m.hi = pos
             accept == ~(empty /\ m.lo = prevMatchEnd)
             next == IF ~empty THEN m.hi
                     ELSE IF pos < Len(text) THEN pos + 1
                     ELSE Len(text) + 1
         IN  (IF accept THEN <<m>> ELSE <<>>)
             \o allMatches(alts, text, next, m.hi)

\* capture 1 of a match (the empty string when the capture is unset)
Submatch1(text, m) ==
    IF m.g < 0 THEN <<>> ELSE SubSeq(text, m.g + 1, m.e)

\* Pattern.FindAllStringSubmatch(text, -1): for every match its capture 1
\* and the offset at which the capture starts
FindAllStringSubmatch(alts, text) ==
    LET ms == allMatches(alts, text, 0, -1)
    IN  [i \in 1..Len(ms) |-> [v1 |-> Submatch1(text, ms[i]), at |-> ms[i].g]]


(***************************************************************************)
(* The Jira server and the Slack API are the environment.  An HTTP         *)
(* exchange is what httpClient.Do and ioutil.ReadAll give back:            *)
(*   do     "ok", or "err" when Do returns an error                        *)
(*   resp   whether Do returned a response (with an error Do returns a nil *)
(*          response, except when CheckRedirect fails)                     *)
(*   status the status code of the response                                *)
(*   read   "ok", or "err" when reading the body fails                     *)
(*   body   the decoded body                                               *)
(***************************************************************************)
\* http.StatusOK
StatusOK == 200

Exchange(do, resp, status, read, body) ==
    [do |-> do, resp |-> resp, status |-> status, read |-> read, body |-> body]

\* the exchanges of an endpoint whose bodies are Bodies; bad is any of them
ExchangesOf(Bodies, bad) ==
    {Exchange("err", FALSE, 0, "ok", bad),
     Exchange("err", TRUE, 302, "ok", bad),
     Exchange("ok", TRUE, StatusOK, "err", bad),
     Exchange("ok", TRUE, 404, "ok", bad)}
    \cup {Exchange("ok", TRUE, StatusOK, "ok", b) : b \in Bodies}

\* how an exchange ends, for the record a unit keeps of its resolutions
Kind(r) ==
    IF r.do = "err" \/ r.read = "err" THEN "TransportErr"
    ELSE IF r.status # StatusOK THEN "Status"
    ELSE IF ~r.body.valid THEN "Unmarshal"
    ELSE "Body"

(***************************************************************************)
(* JiraClient.consumeResponse.  When Do fails, the code reads              *)
(* response.StatusCode of the response Do returned: a nil response makes   *)
(* that a nil pointer dereference, a panic.                                *)
(***************************************************************************)
consumeResponse(r) ==
    IF r.do = "err"
    THEN IF r.resp
         THEN [panic |-> FALSE, rc |-> r.status, data |-> FALSE, err |-> TRUE]
         ELSE [panic |-> TRUE, rc |-> 0, data |-> FALSE, err |-> TRUE]
    ELSE IF r.read = "ok"
    THEN [panic |-> FALSE, rc |-> r.status, data |-> TRUE, err |-> FALSE]
    ELSE [panic |-> FALSE, rc |-> r.status, data |-> FALSE, err |-> TRUE]

(***************************************************************************)
(* JiraClient.GetProjects.  The body of the project endpoint is a JSON     *)
(* list of projects: [valid |-> it parses, keys |-> the keys in order].    *)
(* The result is the error returned and the value of Projects afterwards.  *)
(***************************************************************************)
\* the project lists the server may hold: in the specification of the
\* program, and in the specification of the matcher
ProjectLists == {<< >>, << <<"A">> >>}

KeyLists == {<< >>, << <<"A">> >>, << <<"A", "A">>, <<"A">> >>}

ProjectBodies(lists) ==
    {[valid |-> TRUE, keys |-> ks] : ks \in lists}
    \cup {[valid |-> FALSE, keys |-> << >>]}

ProjectExchanges(lists) ==
    ExchangesOf(ProjectBodies(lists), [valid |-> FALSE, keys |-> << >>])

GetProjects(r, projects) ==
    LET c == consumeResponse(r)
    IN  IF c.panic THEN [panic |-> TRUE, err |-> "nil", projects |-> projects]
        ELSE IF c.err
        THEN [panic |-> FALSE, err |-> "TransportErr", projects |-> projects]
        ELSE IF c.rc # StatusOK
        THEN [panic |-> FALSE, err |-> "Status", projects |-> projects]
        ELSE IF ~r.body.valid
        THEN [panic |-> FALSE, err |-> "Unmarshal", projects |-> projects]
        ELSE [panic |-> FALSE, err |-> "nil", projects |-> r.body.keys]

(***************************************************************************)
(* JiraClient.GetIssue.  The body of the issue endpoint is a JSON issue:   *)
(*   valid    it parses                                                    *)
(*   key      it has a key (the key asked for)                             *)
(*   fields   it has "fields"                                              *)
(*   assignee, priority, status   the display name, or "nil" when absent   *)
(* An Issue keeps the pointers of the struct: Fields is a boolean (not     *)
(* nil), Assignee, Priority and Status are a name or "nil".                *)
(***************************************************************************)
IssueBody(valid, key, fields, assignee, priority, status) ==
    [valid |-> valid, key |-> key, fields |-> fields, assignee |-> assignee,
     priority |-> priority, status |-> status]

IssueBodies ==
    {IssueBody(TRUE, TRUE, TRUE, "bob", "High", "Open"),
     IssueBody(TRUE, TRUE, TRUE, "nil", "High", "Open"),
     IssueBody(TRUE, TRUE, TRUE, "bob", "nil", "Open"),
     IssueBody(TRUE, TRUE, TRUE, "bob", "High", "nil"),
     IssueBody(TRUE, TRUE, FALSE, "nil", "nil", "nil"),
     IssueBody(TRUE, FALSE, FALSE, "nil", "nil", "nil"),
     IssueBody(FALSE, FALSE, FALSE, "nil", "nil", "nil")}

\* no body: of an exchange without one, and of a unit between two calls
NoBody == IssueBody(FALSE, FALSE, FALSE, "nil", "nil", "nil")

IssueExchanges == ExchangesOf(IssueBodies, NoBody)

NoIssue ==
    [Key |-> << >>, Fields |-> FALSE, Assignee |-> "nil", Priority |-> "nil",
     Status |-> "nil"]

\* json.Unmarshal(data, &issue) of a body for the key asked for
Unmarshal(issuekey, b) ==
    [Key |-> IF b.key THEN issuekey ELSE << >>, Fields |-> b.fields,
     Assignee |-> b.assignee, Priority |-> b.priority, Status |-> b.status]

\* a GetIssue without lines 164-166
KeepAssignee(issue) == issue

\* lines 164-166: a nil assignee becomes "Unassigned"
NormalizeAssignee(issue) ==
    IF issue.Assignee = "nil" THEN [issue EXCEPT !.Assignee = "Unassigned"]
    ELSE issue

\* the result: panic (a nil dereference), err (the error returned, "nil"
\* for none) and the issue returned
GetIssue(issuekey, r) ==
    LET c == consumeResponse(r)
        issue == Unmarshal(issuekey, r.body)
    IN  IF c.panic THEN [panic |-> TRUE, err |-> "nil", issue |-> NoIssue]
        ELSE IF c.err
        THEN [panic |-> FALSE, err |-> "TransportErr", issue |-> NoIssue]
        ELSE IF c.rc # StatusOK
        THEN [panic |-> FALSE, err |-> "Status", issue |-> NoIssue]
        ELSE IF ~r.body.valid
        THEN [panic |-> FALSE, err |-> "Unmarshal", issue |-> NoIssue]
        ELSE IF issue.Key = << >>
        THEN [panic |-> FALSE, err |-> "NoIssue", issue |-> issue]
        ELSE IF ~issue.Fields
        THEN [panic |-> TRUE, err |-> "nil", issue |-> issue]
        ELSE [panic |-> FALSE, err |-> "nil", issue |-> NormalizeAssignee(issue)]

(***************************************************************************)
(* getColor and sendMessage.                                               *)
(***************************************************************************)
yellow == "#FFD442"
green == "#048A25"
blue == "#496686"

\* a getColor that does not look at the case of the first letter
getColorFold(status) ==
    CASE status \in {"Open", "open"} -> blue
      [] status \in {"Reopened", "reopened"} -> blue
      [] status \in {"To Do", "to Do"} -> blue
      [] status \in {"Resolved", "resolved"} -> green
      [] status \in {"Closed", "closed"} -> green
      [] status \in {"Done", "done"} -> green
      [] OTHER -> yellow

getColor(status) ==
    CASE status = "Open" -> blue
      [] status = "Reopened" -> blue
      [] status = "To Do" -> blue
      [] status = "Resolved" -> green
      [] status = "Closed" -> green
      [] status = "Done" -> green
      [] OTHER -> yellow

\* sendMessage reads issue.Fields.Priority.Name and issue.Fields.Status.Name
\* before it posts: a nil Priority or Status is a panic.  posterr is the error
\* of Slack.PostMessage.  call is the PostMessage call made: its channel, the
\* title and the color of the attachment, and the error it returned.
sendMessage(issue, channel, posterr) ==
    IF issue.Priority = "nil" \/ issue.Status = "nil"
    THEN [panic |-> TRUE, err |-> FALSE,
          call |-> [channel |-> channel, Title |-> issue.Key,
                    Color |-> yellow, err |-> FALSE]]
    ELSE [panic |-> FALSE, err |-> posterr,
          call |-> [channel |-> channel, Title |-> issue.Key,
                    Color |-> getColor(issue.Status), err |-> posterr]]

\* a PostMessage call as a unit records it: with the match it was made for
\* and the status of the issue it was made for
Sent(i, status, call) ==
    [i |-> i, channel |-> call.channel, Title |-> call.Title,
     Color |-> call.Color, err |-> call.err, Status |-> status]


(***************************************************************************)
(* The state of the process.                                               *)
(***************************************************************************)
VARIABLES
    proc,         \* "running", "exited" (main returned), "panic" (a goroutine
                  \* panicked: the process is gone), "deadlock" (the runtime
                  \* ended the process: all goroutines are asleep)
    panicAt,      \* the function that panicked, "none" so far
    mainpc,       \* where main() is: "GetProjects", "buildPattern", "Loop",
                  \* "Wait", "return"
    Projects,     \* the package variable Projects: the keys, in order
    projectsErr,  \* the error Client.GetProjects() returned ("nil": none);
                  \* main() drops it
    Pattern,      \* the package variable Pattern
    wg,           \* the counter of main()'s sync.WaitGroup
    units,        \* the goroutines started, in the order of their start
    ev            \* the event the loop of main() took last from
                  \* rtm.IncomingEvents (NoEvent: none so far)

vars ==
    <<proc, panicAt, mainpc, Projects, projectsErr, Pattern, wg, units, ev>>

\* the events of rtm.IncomingEvents: the type of msg.Data, and the SubType
\* of a *slack.MessageEvent
NoEvent == [type |-> "none", SubType |-> ""]

SubTypes == {"", "bot_message"}

MessageEvent(subtype) == [type |-> "MessageEvent", SubType |-> subtype]

InvalidAuthEvent == [type |-> "InvalidAuthEvent", SubType |-> ""]

OtherEvent == [type |-> "other", SubType |-> ""]

\* a test that takes no message for a bot message
NeverBot(subtype) == FALSE

\* line 266: ev.SubType != "bot_message" fails
IsBotMessage(subtype) == subtype = "bot_message"

\* the message events of the model: the text and the channel of the message
TextOne == <<"A", "-", "1">>
TextTwice == <<"A", "-", "1", " ", "A", "-", "1">>
TextTrail == <<"A", "-", "1", " ">>
TextTwiceTrail == <<"A", "-", "1", " ", "A", "-", "1", " ">>
TextPlus == <<"A", "-", "1", "+", "A", "-", "1">>

Messages ==
    {[Text |-> TextOne, Channel |-> "C1"],
     [Text |-> TextTwice, Channel |-> "C2"],
     [Text |-> TextTrail, Channel |-> "C1"],
     [Text |-> TextTwiceTrail, Channel |-> "C2"],
     [Text |-> TextPlus, Channel |-> "C1"]}

\* the messages of the specification of the shutdown
DrainMessages == {[Text |-> TextOne, Channel |-> "C1"]}

\* the messages of the specification of the matcher: every text
MatchMessages == {[Text |-> t, Channel |-> "C1"] : t \in AllTexts}

Init ==
    /\ proc = "running"
    /\ panicAt = "none"
    /\ mainpc = "GetProjects"
    /\ Projects = << >>
    /\ projectsErr = "nil"
    /\ Pattern = [compiled |-> FALSE, alts |-> << >>]
    /\ wg = 0
    /\ units = << >>
    /\ ev = NoEvent

(***************************************************************************)
(* main(), lines 245-279.                                                  *)
(***************************************************************************)
\* line 255: Client.GetProjects(); the error it returns is not looked at
GetProjectsStep(lists) ==
    /\ proc = "running" /\ mainpc = "GetProjects"
    /\ \E r \in ProjectExchanges(lists) :
          LET res == GetProjects(r, Projects)
          IN  IF res.panic
              THEN /\ proc' = "panic"
                   /\ panicAt' = "consumeResponse"
                   /\ UNCHANGED <<mainpc, Projects, projectsErr>>
              ELSE /\ Projects' = res.projects
                   /\ projectsErr' = res.err
                   /\ mainpc' = "buildPattern"
                   /\ UNCHANGED <<proc, panicAt>>
    /\ UNCHANGED <<Pattern, wg, units, ev>>

MainGetProjects == GetProjectsStep(ProjectLists)

\* buildPattern(), lines 183-191
buildPattern(projects) == [compiled |-> TRUE, alts |-> Alternatives(projects)]

\* line 256
MainBuildPattern ==
    /\ proc = "running" /\ mainpc = "buildPattern"
    /\ Pattern' = buildPattern(Projects)
    /\ mainpc' = "Loop"
    /\ UNCHANGED <<proc, panicAt, Projects, projectsErr, wg, units, ev>>

\* a goroutine as the go statement of line 268 starts it: the arguments are
\* evaluated in main(), and the WaitGroup is passed by value, so the
\* goroutine gets a copy of the counter
NewUnit(text, channel, wgcopy) ==
    [pc |-> "start", text |-> text, channel |-> channel, wg |-> wgcopy,
     matches |-> << >>, i |-> 0, issue |-> NoIssue, body |-> NoBody,
     log |-> << >>, sent |-> << >>]

\* lines 265-269: a message event that is not a bot message
RecvMessage(msgs, limit) ==
    /\ proc = "running" /\ mainpc = "Loop"
    /\ Len(units) < limit
    /\ \E subtype \in SubTypes :
          /\ ~IsBotMessage(subtype)
          /\ ev' = MessageEvent(subtype)
    /\ \E m \in msgs :
          units' = Append(units, NewUnit(m.Text, m.Channel, wg + 1))
    /\ wg' = wg + 1
    /\ UNCHANGED <<proc, panicAt, mainpc, Projects, projectsErr, Pattern>>

MainRecvMessage == RecvMessage(Messages, MaxUnits)

\* lines 265-266: a message event with SubType "bot_message"
MainRecvBotMessage ==
    /\ proc = "running" /\ mainpc = "Loop"
    /\ \E subtype \in SubTypes :
          /\ IsBotMessage(subtype)
          /\ ev' = MessageEvent(subtype)
    /\ UNCHANGED <<proc, panicAt, mainpc, Projects, projectsErr, Pattern, wg,
                   units>>

\* lines 273-274: any other event
MainRecvOther ==
    /\ proc = "running" /\ mainpc = "Loop"
    /\ ev' = OtherEvent
    /\ UNCHANGED <<proc, panicAt, mainpc, Projects, projectsErr, Pattern, wg,
                   units>>

\* an InvalidAuthEvent that leaves main() in the loop
StayInLoop == "Loop"

\* line 272: break Loop takes main() to wg.Wait()
AfterInvalidAuth == "Wait"

\* lines 270-272: *slack.InvalidAuthEvent, break Loop
MainRecvInvalidAuth ==
    /\ proc = "running" /\ mainpc = "Loop"
    /\ mainpc' = AfterInvalidAuth
    /\ ev' = InvalidAuthEvent
    /\ UNCHANGED <<proc, panicAt, Projects, projectsErr, Pattern, wg, units>>

\* lines 278-279: wg.Wait() returns when the counter is zero, main() returns
MainWaitReturn ==
    /\ proc = "running" /\ mainpc = "Wait"
    /\ wg = 0
    /\ mainpc' = "return"
    /\ proc' = "exited"
    /\ UNCHANGED <<panicAt, Projects, projectsErr, Pattern, wg, units, ev>>

Returned(u) == units[u].pc = "returned"

AllReturned == \A u \in 1..Len(units) : Returned(u)

\* line 278, main() blocked in wg.Wait() for good: when no goroutine is left
\* that can run, the Go runtime may end the process ("all goroutines are
\* asleep - deadlock!"); it does not when a goroutine of a library still
\* waits for the network
RuntimeDeadlock ==
    /\ proc = "running" /\ mainpc = "Wait"
    /\ wg > 0 /\ AllReturned
    /\ proc' = "deadlock"
    /\ UNCHANGED <<panicAt, mainpc, Projects, projectsErr, Pattern, wg, units,
                   ev>>

(***************************************************************************)
(* processEvents(text, channel, wg), lines 236-244, one goroutine u.       *)
(***************************************************************************)
SetUnit(u, rec) ==
    /\ units' = [units EXCEPT ![u] = rec]
    /\ UNCHANGED <<mainpc, Projects, projectsErr, Pattern, wg, ev>>

Panic(where) ==
    /\ proc' = "panic"
    /\ panicAt' = where

\* a loop that leaves out every other match
SkipMatch(rec) ==
    IF rec.i + 1 < Len(rec.matches)
    THEN [rec EXCEPT !.i = rec.i + 2, !.pc = "GetIssue"]
    ELSE [rec EXCEPT !.i = Len(rec.matches) + 1, !.pc = "Done"]

\* the loop of line 239 goes to the next match, or ends
NextMatch(rec) ==
    IF rec.i < Len(rec.matches)
    THEN [rec EXCEPT !.i = rec.i + 1, !.pc = "GetIssue"]
    ELSE [rec EXCEPT !.i = rec.i + 1, !.pc = "Done"]

\* a loop that ends at the first error of GetIssue
StopAtError(rec) == [rec EXCEPT !.i = rec.i + 1, !.pc = "Done"]

\* the loop after GetIssue returned an error for match i
AfterError(rec) == NextMatch(rec)

\* line 238
UnitMatch(u) ==
    /\ proc = "running" /\ units[u].pc = "start"
    /\ LET ms == FindAllStringSubmatch(Pattern.alts, units[u].text)
       IN  SetUnit(u, NextMatch([units[u] EXCEPT !.matches = ms, !.i = 0]))
    /\ UNCHANGED <<proc, panicAt>>

\* the argument of GetIssue for match i, line 240
IssueKeyOf(rec) == TrimSpace(rec.matches[rec.i].v1)

\* what a unit records of the exchange of one GetIssue call
Outcome(r, res) ==
    IF Kind(r) # "Body" THEN Kind(r)
    ELSE IF res.err # "nil" THEN res.err
    ELSE IF res.panic THEN "NoFields"
    ELSE "OK"

\* line 240: Client.GetIssue(strings.TrimSpace(v[1])), the exchange with
\* the server being one of exchanges; the unit keeps the issue returned, and
\* the body it came from, for line 241
GetIssueStep(u, exchanges) ==
    /\ proc = "running" /\ units[u].pc = "GetIssue"
    /\ \E r \in exchanges :
          LET rec == units[u]
              res == GetIssue(IssueKeyOf(rec), r)
              logged == [rec EXCEPT !.log = Append(rec.log, Outcome(r, res))]
          IN  IF res.panic
              THEN /\ Panic(IF consumeResponse(r).panic THEN "consumeResponse"
                            ELSE "GetIssue")
                   /\ SetUnit(u, logged)
              ELSE /\ IF res.err # "nil"
                      THEN SetUnit(u, AfterError(logged))
                      ELSE SetUnit(u, [logged EXCEPT !.issue = res.issue,
                                                     !.body = r.body,
                                                     !.pc = "sendMessage"])
                   /\ UNCHANGED <<proc, panicAt>>

UnitGetIssue(u) == GetIssueStep(u, IssueExchanges)

\* a loop that posts again when the post failed
RetrySend(rec, call) ==
    IF call.err
    THEN [rec EXCEPT !.sent = Append(rec.sent, Sent(rec.i, rec.issue.Status, call))]
    ELSE NextMatch([rec EXCEPT
            !.sent = Append(rec.sent, Sent(rec.i, rec.issue.Status, call)),
            !.issue = NoIssue, !.body = NoBody])

\* lines 241-242: the call is made once, whatever it returns, and the loop
\* goes on
AfterSend(rec, call) ==
    NextMatch([rec EXCEPT
        !.sent = Append(rec.sent, Sent(rec.i, rec.issue.Status, call)),
        !.issue = NoIssue, !.body = NoBody])

\* line 241: sendMessage(issue, channel); the error it returns is dropped
UnitSendMessage(u) ==
    /\ proc = "running" /\ units[u].pc = "sendMessage"
    /\ \E posterr \in BOOLEAN :
          LET rec == units[u]
              res == sendMessage(rec.issue, rec.channel, posterr)
          IN  IF res.panic
              THEN /\ Panic("sendMessage")
                   /\ UNCHANGED <<mainpc, Projects, projectsErr, Pattern, wg, units,
                                ev>>
              ELSE /\ SetUnit(u, AfterSend(rec, res.call))
                   /\ UNCHANGED <<proc, panicAt>>

\* line 237: the deferred wg.Done() on the goroutine's own copy of the
\* WaitGroup (a counter below zero would be a panic)
UnitDone(u) ==
    /\ proc = "running" /\ units[u].pc = "Done"
    /\ IF units[u].wg > 0
       THEN /\ SetUnit(u, [units[u] EXCEPT !.wg = units[u].wg - 1,
                                           !.pc = "returned"])
            /\ UNCHANGED <<proc, panicAt>>
       ELSE /\ Panic("Done")
            /\ UNCHANGED <<mainpc, Projects, projectsErr, Pattern, wg, units,
                                ev>>

\* a step of one of the goroutines
GoMatch == \E u \in 1..Len(units) : UnitMatch(u)

GoGetIssue == \E u \in 1..Len(units) : UnitGetIssue(u)

GoSendMessage == \E u \in 1..Len(units) : UnitSendMessage(u)

GoDone == \E u \in 1..Len(units) : UnitDone(u)

Next ==
    \/ MainGetProjects
    \/ MainBuildPattern
    \/ MainRecvMessage
    \/ MainRecvBotMessage
    \/ MainRecvOther
    \/ MainRecvInvalidAuth
    \/ MainWaitReturn
    \/ RuntimeDeadlock
    \/ GoMatch
    \/ GoGetIssue
    \/ GoSendMessage
    \/ GoDone

Spec == Init /\ [][Next]_vars

\* a step of goroutine u
UnitStep(u) ==
    /\ u \in 1..Len(units)
    /\ (UnitMatch(u) \/ UnitGetIssue(u) \/ UnitSendMessage(u) \/ UnitDone(u))

(***************************************************************************)
(* The specification of the shutdown: the program with one message text,   *)
(* and the scheduling.  main() and every goroutine go on when they can     *)
(* (the HTTP client of GetIssue has a timeout, so a call ends).  Nothing   *)
(* makes Slack send an event, and nothing makes the runtime see the        *)
(* deadlock.                                                               *)
(***************************************************************************)
DrainRecvMessage == RecvMessage(DrainMessages, MaxUnits)

NextOfDrain ==
    \/ MainGetProjects
    \/ MainBuildPattern
    \/ DrainRecvMessage
    \/ MainRecvBotMessage
    \/ MainRecvOther
    \/ MainRecvInvalidAuth
    \/ MainWaitReturn
    \/ RuntimeDeadlock
    \/ GoMatch
    \/ GoGetIssue
    \/ GoSendMessage
    \/ GoDone

\* the program with one message text, without the scheduling
SpecDrain == Init /\ [][NextOfDrain]_vars

FairSpec ==
    /\ Init /\ [][NextOfDrain]_vars
    /\ WF_vars(MainGetProjects)
    /\ WF_vars(MainBuildPattern)
    /\ WF_vars(MainWaitReturn)
    /\ \A u \in 1..MaxUnits : WF_vars(UnitStep(u))

(***************************************************************************)
(* The specification of the matcher: main() up to the first message, whose *)
(* text is any text of AllTexts, and the match of line 238.                *)
(***************************************************************************)
MatchGetProjects == GetProjectsStep(KeyLists)

MatchRecvMessage == RecvMessage(MatchMessages, 1)

NextOfMatch ==
    \/ MatchGetProjects
    \/ MainBuildPattern
    \/ MatchRecvMessage
    \/ GoMatch

SpecMatch == Init /\ [][NextOfMatch]_vars

(***************************************************************************)
(* The specification of the colors: the program with one message text and  *)
(* a server whose issues have every field, and any status of Statuses.     *)
(***************************************************************************)
Statuses ==
    {"Open", "Reopened", "To Do", "Resolved", "Closed", "Done",
     "open", "DONE", "Backlog", ""}

ColorBodies ==
    {IssueBody(TRUE, TRUE, TRUE, a, "High", st) :
        a \in {"bob", "nil"}, st \in Statuses}

ColorExchanges == ExchangesOf(ColorBodies, NoBody)

ColorGetIssue == \E u \in 1..Len(units) : GetIssueStep(u, ColorExchanges)

NextOfColor ==
    \/ MainGetProjects
    \/ MainBuildPattern
    \/ DrainRecvMessage
    \/ MainRecvInvalidAuth
    \/ MainWaitReturn
    \/ GoMatch
    \/ ColorGetIssue
    \/ GoSendMessage
    \/ GoDone

SpecColor == Init /\ [][NextOfColor]_vars


(***************************************************************************)
(* Properties.                                                             *)
(***************************************************************************)
UnitIds == 1..Len(units)

\* u has started and has not returned
InFlight(u) == units[u].pc \in {"GetIssue", "sendMessage", "Done"}

\* the resolutions of u that returned without error, and its PostMessage calls
OKCount(u) == Cardinality({i \in 1..Len(units[u].log) : units[u].log[i] = "OK"})

PostCount(u) == Len(units[u].sent)

\* the loop has ended on an InvalidAuthEvent
LoopEnded == mainpc \in {"Wait", "return"}

\* C1: once the loop has consumed the InvalidAuthEvent and every unit started
\* has returned, the process ends (whatever the number of units started).
C1_ShutdownDrainLive == (LoopEnded /\ AllReturned) ~> (proc # "running")

\* C2: the process is never gone while a unit is in flight.
C2_NoExitWhileInFlight ==
    proc # "running" => \A u \in UnitIds : ~InFlight(u)

\* the failures of a resolution: a transport error, a status that is not 200,
\* a body that does not parse, an empty key
ResolutionFailures == {"TransportErr", "Status", "Unmarshal", "NoIssue"}

\* in this step the resolution of a reference of u fails
FailsNow(u) ==
    /\ Len(units'[u].log) = Len(units[u].log) + 1
    /\ units'[u].log[Len(units'[u].log)] \in ResolutionFailures

\* C3: a step in which a resolution of unit u fails leaves the process
\* running, main() and the other units as they are, and u goes on with the
\* error; and only the InvalidAuthEvent ends the event loop.
C3_ErrorContainment ==
    [][/\ \A u \in UnitIds :
             FailsNow(u) =>
                /\ proc' = "running"
                /\ mainpc' = mainpc
                /\ units'[u].pc \in {"GetIssue", "Done"}
                /\ \A v \in UnitIds \ {u} : units'[v] = units[v]
       /\ (mainpc = "Loop" /\ ~(mainpc' = "Loop" /\ proc' = "running"))
             => (mainpc' = "Wait" /\ proc' = "running")]_vars

\* the fetch of the projects at startup failed: GetProjects returned an error,
\* or the process died in it
FetchFailed ==
    \/ projectsErr # "nil"
    \/ (proc = "panic" /\ mainpc = "GetProjects")

\* C4: when the fetch of the projects fails, no pattern is built, the event
\* loop is not entered and no message is processed.
C4_StartupFatal ==
    FetchFailed => (~Pattern.compiled /\ mainpc # "Loop" /\ units = << >>)

\* C5: for a message whose processing is over (the unit returned, or the
\* process is gone), the PostMessage calls are as many as the resolutions
\* that succeeded.
C5_OneCardPerResolved ==
    \A u \in UnitIds :
        (Returned(u) \/ (proc # "running" /\ units[u].pc # "start"))
            => PostCount(u) = OKCount(u)

\* C6: a reference whose resolution returns a status that is not 200 or an
\* empty key gets no PostMessage call, and the unit goes on: it is past that
\* reference, and when its loop has ended it has tried every reference.
C6_PerReferenceIsolation ==
    \A u \in UnitIds : \A i \in 1..Len(units[u].log) :
        units[u].log[i] \in {"Status", "NoIssue"} =>
            /\ \A c \in 1..Len(units[u].sent) : units[u].sent[c].i # i
            /\ units[u].i > i
            /\ units[u].pc \in {"Done", "returned"}
                  => Len(units[u].log) = Len(units[u].matches)

\* a unit that returned, whose first reference failed with a status and
\* whose second reference got its card
C6_Witness ==
    \E u \in UnitIds :
        /\ Returned(u)
        /\ Len(units[u].log) >= 2
        /\ units[u].log[1] = "Status"
        /\ units[u].log[2] = "OK"
        /\ Len(units[u].sent) = 1
        /\ units[u].sent[1].i = 2

\* a token KEY-NUMBER for key k at offset g of text
KeyTokenAt(text, g, k) ==
    /\ HasPrefixAt(text, g, k)
    /\ g + Len(k) + 1 < Len(text)
    /\ text[g + Len(k) + 1] = "-"
    /\ IsDigit(text[g + Len(k) + 2])

\* the token starts the text or follows a character that is not a word
\* character
AtBoundary(text, g) == g = 0 \/ ~IsWordChar(text[g])

\* the offsets of text at which a token of a key of keys starts
TokenOffsets(keys, text) ==
    {g \in 0..Len(text) :
        AtBoundary(text, g) /\ \E j \in 1..Len(keys) : KeyTokenAt(text, g, keys[j])}

\* C7: a unit whose loop has ended has made as many resolutions as its text
\* has tokens KEY-NUMBER (two for a text with the same key twice).
C7_NoDedupOnePerToken ==
    \A u \in UnitIds :
        units[u].pc \in {"Done", "returned"} =>
            Len(units[u].log) = Cardinality(TokenOffsets(Projects, units[u].text))

\* u has matched its text
Matched(u) == units[u].pc # "start"

\* C8: with no project key, the match of any text gives no reference.
C8_EmptyKeysNoReference ==
    \A u \in UnitIds : (Matched(u) /\ Projects = << >>) => units[u].matches = << >>

\* the token KEY-NUMBER for key k at offset g, with all its digits
TokenText(text, g, k) == SubSeq(text, g + 1, DigitsEnd(text, g + Len(k) + 1))

\* C9: every token KEY-NUMBER of a key of Projects that starts the text or
\* follows a character that is not a word character is a reference.
C9_MatchingComplete ==
    \A u \in UnitIds :
        Matched(u) =>
            \A j \in 1..Len(Projects) : \A g \in 0..Len(units[u].text) :
                (KeyTokenAt(units[u].text, g, Projects[j])
                 /\ AtBoundary(units[u].text, g))
                    => \E m \in 1..Len(units[u].matches) :
                          /\ units[u].matches[m].at = g
                          /\ units[u].matches[m].v1
                                = TokenText(units[u].text, g, Projects[j])

\* C10: no reference starts right after a word character.
C10_BoundaryAnchoring ==
    \A u \in UnitIds :
        Matched(u) =>
            \A m \in 1..Len(units[u].matches) :
                units[u].matches[m].at > 0
                    => ~IsWordChar(units[u].text[units[u].matches[m].at])

\* a text with a token of a key of Projects right after a word character,
\* matched, and the token is no reference
C10_Witness ==
    \E u \in UnitIds :
        /\ Matched(u)
        /\ \E j \in 1..Len(Projects) : \E g \in 1..Len(units[u].text) :
              /\ KeyTokenAt(units[u].text, g, Projects[j])
              /\ IsWordChar(units[u].text[g])
              /\ \A m \in 1..Len(units[u].matches) : units[u].matches[m].at # g

\* the event is a message event that is not a bot message
IsUserMessage(e) == e.type = "MessageEvent" /\ e.SubType # "bot_message"

\* C11: a step starts a unit only when the loop takes a message event that
\* is not a bot message, and then it starts exactly one; a step in which the
\* loop takes such an event starts a unit; a step in which the loop takes a
\* bot message or an event of another kind (not the InvalidAuthEvent) starts
\* nothing and leaves main(), the counter and the units as they are.
C11_EventFiltering ==
    [][/\ Len(units') # Len(units)
             => /\ mainpc = "Loop" /\ mainpc' = "Loop"
                /\ IsUserMessage(ev')
                /\ Len(units') = Len(units) + 1
                /\ SubSeq(units', 1, Len(units)) = units
                /\ units'[Len(units')].pc = "start"
       /\ (ev' # ev /\ IsUserMessage(ev'))
             => Len(units') = Len(units) + 1
       /\ (ev' # ev /\ ~IsUserMessage(ev') /\ ev' # InvalidAuthEvent)
             => UNCHANGED <<proc, mainpc, Pattern, Projects, wg, units>>]_vars

\* a message started a unit, and the bot message taken after it started none
C11_Witness ==
    /\ ev = MessageEvent("bot_message")
    /\ Len(units) = 1
    /\ mainpc = "Loop"

\* C12: once the loop has taken the InvalidAuthEvent it takes no other event
\* and no unit is started, though message events could still come.
C12_FatalAuth ==
    [][ev = InvalidAuthEvent
          => /\ ev' = InvalidAuthEvent
             /\ mainpc' # "Loop"
             /\ Len(units') = Len(units)]_vars

\* the InvalidAuthEvent was taken when one more unit could have been
\* started, a unit is still at work, and main() is in wg.Wait()
C12_Witness ==
    /\ ev = InvalidAuthEvent
    /\ mainpc = "Wait"
    /\ proc = "running"
    /\ Len(units) < MaxUnits
    /\ \E u \in UnitIds : units[u].pc = "sendMessage"

\* C13: an issue GetIssue returned without error has an assignee: it is
\* "Unassigned" when the body had none, else the assignee of the body.
C13_AssigneeNormalized ==
    \A u \in UnitIds :
        units[u].pc = "sendMessage" =>
            /\ units[u].issue.Assignee # "nil"
            /\ units[u].body.assignee = "nil"
                  => units[u].issue.Assignee = "Unassigned"
            /\ units[u].body.assignee # "nil"
                  => units[u].issue.Assignee = units[u].body.assignee

\* GetIssue returned an issue whose body had no assignee
C13_Witness ==
    \E u \in UnitIds :
        /\ units[u].pc = "sendMessage"
        /\ units[u].body.assignee = "nil"
        /\ units[u].issue.Assignee = "Unassigned"

\* the color of a status, as the table of the colors gives it
ColorOf(status) ==
    IF status \in {"Open", "Reopened", "To Do"} THEN "#496686"
    ELSE IF status \in {"Resolved", "Closed", "Done"} THEN "#048A25"
    ELSE "#FFD442"

\* C14: the color of every card is the color of the status of its issue:
\* blue for Open, Reopened and To Do, green for Resolved, Closed and Done,
\* yellow for any other string; and sendMessage of an issue with a status
\* does not fail on the status.
C14_ColorMapping ==
    /\ \A u \in UnitIds : \A c \in 1..Len(units[u].sent) :
          units[u].sent[c].Color = ColorOf(units[u].sent[c].Status)
    /\ panicAt # "sendMessage"

\* cards were sent for an issue of status "open" and for one of status "":
\* both yellow
C14_Witness ==
    \E u, v \in UnitIds :
        /\ \E c \in 1..Len(units[u].sent) :
              /\ units[u].sent[c].Status = "open"
              /\ units[u].sent[c].Color = yellow
        /\ \E c \in 1..Len(units[v].sent) :
              /\ units[v].sent[c].Status = ""
              /\ units[v].sent[c].Color = yellow

\* the identifier of reference j of unit u is empty
EmptyKey(u, j) == TrimSpace(units[u].matches[j].v1) = << >>

\* every reference resolved so far was a valid ticket: the server returned
\* its issue; and the server answered the lookup of an empty identifier
AllValid ==
    \A u \in UnitIds : \A j \in 1..Len(units[u].log) :
        \/ units[u].log[j] = "OK"
        \/ (EmptyKey(u, j) /\ units[u].log[j] \in {"Status", "NoIssue"})

\* the PostMessage calls of u for its reference j
CallsFor(u, j) == {c \in 1..Len(units[u].sent) : units[u].sent[c].i = j}

\* C15: with messages that refer to valid tickets, whatever the order of the
\* steps of the units, a message whose processing is over (its unit
\* returned, or the process is gone) has exactly one PostMessage call for
\* each of its references, to its own channel; and after startup Pattern is
\* what buildPattern made of Projects.
C15_ConcurrentMessages ==
    /\ AllValid =>
          \A u \in UnitIds :
              (Returned(u) \/ (proc # "running" /\ units[u].pc # "start")) =>
                  \A j \in 1..Len(units[u].log) :
                      units[u].log[j] = "OK" =>
                          /\ Cardinality(CallsFor(u, j)) = 1
                          /\ \A c \in CallsFor(u, j) :
                                units[u].sent[c].channel = units[u].channel
    /\ mainpc \in {"Loop", "Wait", "return"} => Pattern = buildPattern(Projects)

\* in this step a PostMessage call of u fails
PostFailsNow(u) ==
    /\ Len(units'[u].sent) = Len(units[u].sent) + 1
    /\ units'[u].sent[Len(units'[u].sent)].err

\* C16: a step in which a PostMessage call of unit u fails leaves the
\* process running and main(), the counter and the other units as they are;
\* u goes on to its next reference, or ends when it was the last; and no
\* reference of a unit ever gets a second PostMessage call.
C16_DispatchContained ==
    [][\A u \in UnitIds :
          /\ PostFailsNow(u) =>
                /\ proc' = "running"
                /\ mainpc' = mainpc /\ wg' = wg /\ ev' = ev
                /\ units'[u].i = units[u].i + 1
                /\ units'[u].pc =
                      (IF units[u].i < Len(units[u].matches)
                       THEN "GetIssue" ELSE "Done")
                /\ \A v \in UnitIds \ {u} : units'[v] = units[v]
          /\ \A c, d \in 1..Len(units'[u].sent) :
                units'[u].sent[c].i = units'[u].sent[d].i => c = d]_vars

\* a unit returned whose first card failed to post and whose second card
\* was posted, and the other unit posted its card
C16_Witness ==
    \E u, v \in UnitIds :
        /\ u # v
        /\ Returned(u)
        /\ Len(units[u].sent) = 2
        /\ units[u].sent[1].err /\ units[u].sent[1].i = 1
        /\ ~units[u].sent[2].err /\ units[u].sent[2].i = 2
        /\ Returned(v)
        /\ Len(units[v].sent) >= 1
        /\ ~units[v].sent[1].err

\* C17: the counter wg.Wait() waits on is the number of the units started
\* that have not returned, and every unit that returned has counted down its
\* own start.
C17_CompletionSignalling ==
    /\ wg = Cardinality({u \in UnitIds : ~Returned(u)})
    /\ AllReturned => wg = 0

WellFormed(keys, k) ==
    \E j \in 1..Len(keys) :
        LET n == Len(keys[j])
        IN  /\ n > 0
            /\ Len(k) >= n + 2
            /\ SubSeq(k, 1, n) = keys[j]
            /\ k[n + 1] = "-"
            /\ \A x \in (n + 2)..Len(k) : IsDigit(k[x])

C20_RenderSafety ==
    /\ panicAt \notin {"GetIssue", "sendMessage"}
    /\ \A u \in UnitIds :
          units[u].pc = "sendMessage" =>
              /\ units[u].issue.Fields
              /\ units[u].issue.Assignee # "nil"
              /\ units[u].issue.Priority # "nil"
              /\ units[u].issue.Status # "nil"

====
